---------------------------- MODULE Spec2Model ----------------------------
(***************************************************************************)
(* Scanner approval dashboard (src/app.py, src/kite_utils.py).             *)
(*                                                                         *)
(* Numbers.  Python floats are modelled as exact decimals held in          *)
(* integers:                                                               *)
(*   - a price is an integer number of mills (1/1000 rupee), so 100.0 is   *)
(*     100000 and 101.456 is 101456;                                       *)
(*   - true_range is in mills, the multiplier in tenths (1.5 is 15), so    *)
(*     true_range * multiplier is in units of 1/10000 rupee;               *)
(*   - capital is an integer number of rupees.                             *)
(* round(x, 1) and f"{x:.2f}" round to the nearest multiple, a tie going   *)
(* to the even multiple (Python rounds the stored value correctly; the     *)
(* binary representation error of a float is not modelled).                *)
(***************************************************************************)
EXTENDS Integers, Sequences, FiniteSets, TLC

VARIABLES
    \* ---- persisted session record and st.session_state (session part) ----
    cache_file,             \* kite_session.json on disk
    is_logged_in,
    user_api_key,
    user_api_secret,
    access_token,
    request_token,          \* st.query_params["request_token"], "" when absent
    \* ---- st.session_state (workflow part) and the page shown ----
    page,
    scanner_data,
    selected_scanner_data,
    selection_done,
    capital,
    capital_strategy,
    \* ---- what the last script run did ----
    kite_orders,            \* the kite.place_order calls it issued, in order
    successful_orders,      \* place_all_orders' lists, when it ran
    failed_orders,
    load_result,            \* what load_session_from_disk returned, if called
    profile_call,           \* how its kite.profile() call ended, if issued
    quote_calls,            \* the symbols it asked kite.quote() for, in order
    \* ---- finalizer harness (FinSpec): one call of the pure function ----
    fin_args,        \* arguments of the call, with the gateway's quotes
    fin_done,        \* the call has returned
    fin_result,      \* the list it returned
    fin_second,      \* a second call on the same (mutated) rows
    ku_result        \* the same call made to the finalizer of kite_utils.py

session_vars == <<cache_file, is_logged_in, user_api_key, user_api_secret,
                  access_token, request_token>>
workflow_vars == <<page, scanner_data, selected_scanner_data, selection_done,
                   capital, capital_strategy>>
run_vars == <<kite_orders, successful_orders, failed_orders, load_result,
              profile_call, quote_calls>>
fin_vars == <<fin_args, fin_done, fin_result, fin_second, ku_result>>

-----------------------------------------------------------------------------
(* Bounds and inputs of the finalizer harness *)

MaxRows == 2

Strategies == {"One each", "Equal distribution"}
Actions == {"SKIP", "BUY", "SELL", "BOTH"}

\* Selected rows handed to the finalizer (symbol, true_range, Action).
FinRows ==
    { [symbol |-> "INFY", true_range |-> 5000, Action |-> "BUY"],
      [symbol |-> "TCS",  true_range |-> 1456, Action |-> "BOTH"],
      [symbol |-> "SBIN", true_range |-> 0,    Action |-> "SELL"] }

\* Open prices the gateway may answer, in mills; 0 is "data unavailable".
FinOpenPrices == {0, 100000, 101456, 400000, 5000000}
FinMultipliers == {0, 1, 15}
FinCapitals == {1000, 100000}

\* Bounds and inputs of the application and of the batch harness
MaxBatch == 3

\* Rows the scanner table may return (symbol, true_range).
ScanRows ==
    { [symbol |-> "INFY", true_range |-> 5000],
      [symbol |-> "TCS",  true_range |-> 1456] }
AppOpenPrices == {0, 100000}
AppMultipliers == {15}
AppCapitals == {1000, 100000}
BatchSymbols == {"INFY", "TCS", "SBIN", "WIPRO"}

SeqsUpTo(S, n) == UNION { [1..k -> S] : k \in 0..n }

\* A scanner row is identified by (date, symbol): no symbol occurs twice.
DistinctSymbols(rows) ==
    \A i, j \in 1..Len(rows) : rows[i].symbol = rows[j].symbol => i = j

\* What fetch_scanner_results may return; <<>> is "no data" or a query error.
ScannerResults ==
    { rows \in SeqsUpTo(ScanRows, Cardinality(ScanRows)) : DistinctSymbols(rows) }

-----------------------------------------------------------------------------
(* Arithmetic helpers *)

Max(a, b) == IF a >= b THEN a ELSE b

\* x rounded to the nearest multiple of u (u > 0), ties to the even multiple.
RoundHalfEven(x, u) ==
    LET q == x \div u
        r == x % u
    IN  IF 2 * r < u THEN q * u
        ELSE IF 2 * r > u THEN (q + 1) * u
        ELSE IF q % 2 = 0 THEN q * u
        ELSE (q + 1) * u

\* float(f"{open_price:.2f}"): mills rounded to a whole number of paise.
Round2(open_price) == RoundHalfEven(open_price, 10)

\* Faulty variant: the digits after the first decimal are cut off.
Round1_floor(x) == (x \div 1000) * 100

\* round(x, 1) of a value given in 1/10000 rupee; the result is in mills.
Round1(x) == RoundHalfEven(x, 1000) \div 10

RECURSIVE SumSeq(_)
SumSeq(s) == IF s = <<>> THEN 0 ELSE Head(s) + SumSeq(Tail(s))

-----------------------------------------------------------------------------
(* calculate_quantity_and_finalize, src/app.py:157-221 *)

\* ohlc_map[symbol]: the map is filled in list order, one quote per row, so
\* the quote of the last row carrying the symbol is the one kept.
ohlc_map(selected_data, quotes, symbol) ==
    LET last == CHOOSE i \in 1..Len(selected_data) :
                    /\ selected_data[i].symbol = symbol
                    /\ \A j \in (i + 1)..Len(selected_data) :
                           selected_data[j].symbol # symbol
    IN  quotes[last]

\* Faulty variant: "break" in place of "continue": the first zero-price row ends the loop.
KeptIndices_break(selected_data, quotes) ==
    LET zero(i) == ohlc_map(selected_data, quotes, selected_data[i].symbol) = 0
        stop == IF \E i \in 1..Len(selected_data) : zero(i)
                THEN CHOOSE i \in 1..Len(selected_data) :
                         zero(i) /\ \A j \in 1..(i - 1) : ~zero(j)
                ELSE Len(selected_data) + 1
    IN  [i \in 1..(stop - 1) |-> i]

\* Indices of the rows that pass "if open_price == 0.0: continue", in order.
KeptIndices(selected_data, quotes) ==
    SelectSeq([i \in 1..Len(selected_data) |-> i],
              LAMBDA i : ohlc_map(selected_data, quotes, selected_data[i].symbol) # 0)

\* delta = float(true_range) * multiplier, in 1/10000 rupee.
Delta(row, multiplier) == row.true_range * multiplier

calc_buy(open_price, delta) == open_price * 10 + delta
calc_sell(open_price, delta) == open_price * 10 - delta

\* Faulty variant: the scaled range is written back into the row.
PricedRow_writes_delta(row, open_price, multiplier) ==
    [symbol     |-> row.symbol,
     true_range |-> Delta(row, multiplier) \div 10,
     Action     |-> row.Action,
     open_price |-> Round2(open_price),
     buy_price  |-> Round1(calc_buy(open_price, Delta(row, multiplier))),
     sell_price |-> Round1(calc_sell(open_price, Delta(row, multiplier)))]

\* Step 2 for one kept row: the price fields.
PricedRow(row, open_price, multiplier) ==
    [symbol     |-> row.symbol,
     true_range |-> row.true_range,
     Action     |-> row.Action,
     open_price |-> Round2(open_price),
     buy_price  |-> Round1(calc_buy(open_price, Delta(row, multiplier))),
     sell_price |-> Round1(calc_sell(open_price, Delta(row, multiplier)))]

\* Faulty variant: the budget is split over the rows selected, not the rows finalized.
num_stocks_selected(selected_data, quotes) == Len(selected_data)

\* num_stocks = len(finalized_data)
num_stocks(selected_data, quotes) == Len(KeptIndices(selected_data, quotes))

\* Faulty variant: the floor without the minimum of 1.
FloorQuantity(cap, n, price_proxy) ==
    (cap * 1000) \div (n * price_proxy)

\* max(1, math.floor((capital / num_stocks) / price_proxy)), price_proxy > 0
MinOneQuantity(cap, n, price_proxy) ==
    Max(1, (cap * 1000) \div (n * price_proxy))

\* Step 3 for one row.
Quantity(strategy, cap, n, price_proxy) ==
    IF strategy = "One each" THEN 1
    ELSE IF price_proxy > 0 THEN MinOneQuantity(cap, n, price_proxy)
    ELSE 1

calculate_quantity_and_finalize(selected_data, multiplier, cap, strategy, quotes) ==
    LET kept == KeptIndices(selected_data, quotes)
        n    == num_stocks(selected_data, quotes)
        priced(k) == PricedRow(selected_data[kept[k]],
                               ohlc_map(selected_data, quotes,
                                        selected_data[kept[k]].symbol),
                               multiplier)
    IN  [k \in 1..Len(kept) |->
            [symbol     |-> priced(k).symbol,
             true_range |-> priced(k).true_range,
             Action     |-> priced(k).Action,
             open_price |-> priced(k).open_price,
             buy_price  |-> priced(k).buy_price,
             sell_price |-> priced(k).sell_price,
             quantity   |-> Quantity(strategy, cap, n, priced(k).open_price)]]

\* The finalizer writes its fields into the row dictionaries it was given:
\* selected_data as the caller sees it after a call that returned
\* `finalized`.  A row that was skipped is left as it was.
RowsAfterCall(selected_data, quotes, finalized) ==
    LET kept(i) == ohlc_map(selected_data, quotes, selected_data[i].symbol) # 0
        pos(i) == Cardinality({ j \in 1..i : kept(j) })
    IN  [i \in 1..Len(selected_data) |->
            IF kept(i) THEN finalized[pos(i)] ELSE selected_data[i]]

\* A call that was not made; one that returned `rows`; one that raised.
NotCalled == [done |-> FALSE, raised |-> FALSE, rows |-> <<>>]
Returned(rows) == [done |-> TRUE, raised |-> FALSE, rows |-> rows]
Raised == [done |-> TRUE, raised |-> TRUE, rows |-> <<>>]

-----------------------------------------------------------------------------
(* calculate_quantity_and_finalize of src/kite_utils.py:62-130.  The module *)
(* imports neither streamlit (st) nor math: evaluating either name raises   *)
(* NameError.                                                               *)

ku_calc_buy(open_price, delta) == open_price * 10 - delta
ku_calc_sell(open_price, delta) == open_price * 10 + delta

ku_PricedRow(row, open_price, multiplier) ==
    [symbol     |-> row.symbol,
     true_range |-> row.true_range,
     Action     |-> row.Action,
     open_price |-> Round2(open_price),
     buy_price  |-> Round1(ku_calc_buy(open_price, Delta(row, multiplier))),
     sell_price |-> Round1(ku_calc_sell(open_price, Delta(row, multiplier)))]

\* st.warning (line 86), st.error (line 105) and math.floor (line 124) are
\* reached for a row without open price, for an empty result and for an
\* "Equal distribution" row whose price_proxy is positive.
ku_NameError(selected_data, strategy, quotes) ==
    \/ \E i \in 1..Len(selected_data) :
           ohlc_map(selected_data, quotes, selected_data[i].symbol) = 0
    \/ selected_data = <<>>
    \/ /\ strategy = "Equal distribution"
       /\ \E i \in 1..Len(selected_data) :
              Round2(ohlc_map(selected_data, quotes, selected_data[i].symbol)) > 0

kite_utils_calculate_quantity_and_finalize(selected_data, multiplier, cap, strategy, quotes) ==
    IF ku_NameError(selected_data, strategy, quotes) THEN Raised
    ELSE Returned(
             [k \in 1..Len(selected_data) |->
                 LET priced == ku_PricedRow(
                                   selected_data[k],
                                   ohlc_map(selected_data, quotes,
                                            selected_data[k].symbol),
                                   multiplier)
                 IN  [symbol     |-> priced.symbol,
                      true_range |-> priced.true_range,
                      Action     |-> priced.Action,
                      open_price |-> priced.open_price,
                      buy_price  |-> priced.buy_price,
                      sell_price |-> priced.sell_price,
                      quantity   |-> 1]])

-----------------------------------------------------------------------------
(* Session persistence, src/app.py:54-116 *)

\* The cache file: absent, present but not a JSON object, or a record whose
\* api_key / access_token may be missing ("" stands for missing or empty).
NoFile == [exists |-> FALSE, valid_json |-> FALSE, api_key |-> "", access_token |-> ""]
CorruptFile == [exists |-> TRUE, valid_json |-> FALSE, api_key |-> "", access_token |-> ""]
SessionRecord(api_key, token) ==
    [exists |-> TRUE, valid_json |-> TRUE, api_key |-> api_key, access_token |-> token]

\* What kite_session.json may hold when the process starts.
StartCacheFiles ==
    { NoFile, CorruptFile,
      SessionRecord("", "tokA"), SessionRecord("keyA", ""),
      SessionRecord("keyA", "tokA") }

\* Outcomes of the remote calls and of the disk write.
ProfileOutcomes == {"ok", "token_rejected", "network_error"}
ExchangeOutcomes == {"ok", "raises", "no_access_token"}
WriteOutcomes == {"ok", "open_fails", "dump_fails"}

\* What the operator may type in the login forms ("" is an empty field).
FormKeys == {"", "keyB"}
FormSecrets == {"", "secB"}
NewToken == "tokB"

\* Faulty variant: the file is left in place.
clear_local_cache_keep(file) == file

\* clear_local_cache: os.remove if the file exists.
clear_local_cache(file) == NoFile

\* The except clause of load_session_from_disk (lines 87-90).
OnLoadException(file) == clear_local_cache(file)

\* Faulty variant: the record is not checked for its required fields.
RecordComplete_unchecked(file) == TRUE

\* Line 74: both access_token and api_key are present and non-empty.
RecordComplete(file) == file.access_token # "" /\ file.api_key # ""

\* load_session_from_disk with the remote profile call ending as `profile`:
\* the value returned, the file afterwards, the session fields it sets.
load_session_from_disk(file, profile) ==
    IF ~file.exists THEN
        [ret |-> FALSE, file |-> file, profile_call |-> "not_called"]
    ELSE IF ~file.valid_json THEN
        [ret |-> FALSE, file |-> OnLoadException(file), profile_call |-> "not_called"]
    ELSE IF ~RecordComplete(file) THEN
        [ret |-> FALSE, file |-> file, profile_call |-> "not_called"]
    ELSE IF profile = "ok" THEN
        [ret |-> TRUE, file |-> file, profile_call |-> profile]
    ELSE
        [ret |-> FALSE, file |-> OnLoadException(file), profile_call |-> profile]

\* save_session_to_disk: open(CACHE_FILE, "w") truncates, json.dump writes.
save_session_to_disk(file, api_key, token, write) ==
    IF write = "ok" THEN SessionRecord(api_key, token)
    ELSE IF write = "dump_fails" THEN CorruptFile
    ELSE file

\* Lines 17-33: the defaults of a session state that holds nothing.
SessionDefaults ==
    /\ is_logged_in' = FALSE
    /\ user_api_key' = ""
    /\ user_api_secret' = ""
    /\ access_token' = ""
WorkflowDefaults ==
    /\ page' = "Scanner"
    /\ scanner_data' = <<>>
    /\ selected_scanner_data' = <<>>
    /\ selection_done' = FALSE
    /\ capital' = 100000
    /\ capital_strategy' = "One each"

NoBrokerCalls ==
    /\ kite_orders' = <<>>
    /\ successful_orders' = <<>>
    /\ failed_orders' = <<>>
NoRestore ==
    /\ load_result' = "not_called"
    /\ profile_call' = "not_called"
NoQuoteCalls == quote_calls' = <<>>

Credentials(key, secret) == [key |-> key, secret |-> secret]

\* main, lines 378-383, in a run that starts not logged in and without a
\* request token: the restore attempt on `file`.  `stored` is the session's
\* user_api_key / user_api_secret when the run starts; when the restore
\* returns False the run goes on and leaves them as `typed`.
AutoLogin(file, profile, stored, typed) ==
    LET r == load_session_from_disk(file, profile)
    IN  /\ cache_file' = r.file
        /\ load_result' = (IF r.ret THEN "True" ELSE "False")
        /\ profile_call' = r.profile_call
        /\ is_logged_in' = r.ret
        /\ access_token' = (IF r.ret THEN file.access_token ELSE "")
        /\ user_api_key' = (IF r.ret THEN file.api_key ELSE typed.key)
        /\ user_api_secret' = (IF r.ret THEN stored.secret ELSE typed.secret)

\* The remote exchange gives a session only for a key and secret that are
\* not empty (the checksum is made of both).
ExchangeSucceeds(api_key, api_secret, exchange) ==
    exchange = "ok" /\ api_key # "" /\ api_secret # ""

\* finalize_login, lines 97-110; on True the caller clears the query
\* parameters and reruns (lines 547-549, 556-558).
finalize_login(api_key, api_secret, exchange, write) ==
    IF ExchangeSucceeds(api_key, api_secret, exchange) THEN
        /\ access_token' = NewToken
        /\ user_api_key' = api_key
        /\ is_logged_in' = TRUE
        /\ cache_file' = save_session_to_disk(cache_file, api_key, NewToken, write)
        /\ request_token' = ""
    ELSE
        /\ request_token' = "rt"
        /\ UNCHANGED <<access_token, user_api_key, is_logged_in, cache_file>>

-----------------------------------------------------------------------------
(* Login flow: one action per script run, src/app.py:376-383, 538-570 *)

\* A new browser session opens the page, with or without ?request_token=.
OpenPage ==
    \E rt \in {"", "rt"}, profile \in ProfileOutcomes :
        /\ request_token' = rt
        /\ WorkflowDefaults
        /\ NoBrokerCalls /\ NoQuoteCalls
        /\ IF rt = ""
           THEN AutoLogin(cache_file, profile, Credentials("", ""),
                          Credentials("", ""))
           ELSE SessionDefaults /\ NoRestore /\ UNCHANGED cache_file
        /\ UNCHANGED fin_vars

\* The "Connect" form (lines 560-570), submitted from the login screen; a
\* restore that succeeds reruns the script and the form is dropped.
Connect ==
    \E api_key \in FormKeys, api_secret \in FormSecrets,
       profile \in ProfileOutcomes :
        /\ ~is_logged_in /\ request_token = ""
        /\ AutoLogin(cache_file, profile,
                     Credentials(user_api_key, user_api_secret),
                     IF api_key # "" /\ api_secret # ""
                     THEN Credentials(api_key, api_secret)
                     ELSE Credentials(user_api_key, user_api_secret))
        /\ NoBrokerCalls /\ NoQuoteCalls
        /\ UNCHANGED <<request_token, workflow_vars, fin_vars>>

\* The broker redirects back into the same session: the stored key and
\* secret are exchanged at once (lines 541-549).
ReturnFromBroker ==
    \E exchange \in ExchangeOutcomes, write \in WriteOutcomes :
        /\ ~is_logged_in /\ request_token = ""
        /\ user_api_key # "" /\ user_api_secret # ""
        /\ finalize_login(user_api_key, user_api_secret, exchange, write)
        /\ NoBrokerCalls /\ NoQuoteCalls /\ NoRestore
        /\ UNCHANGED <<user_api_secret, workflow_vars, fin_vars>>

\* The "Complete Login" form (lines 550-558).
CompleteLogin ==
    \E re_api_key \in FormKeys, re_api_secret \in FormSecrets,
       exchange \in ExchangeOutcomes, write \in WriteOutcomes :
        /\ ~is_logged_in /\ request_token # ""
        /\ ~(user_api_key # "" /\ user_api_secret # "")
        /\ finalize_login(re_api_key, re_api_secret, exchange, write)
        /\ NoBrokerCalls /\ NoQuoteCalls /\ NoRestore
        /\ UNCHANGED <<user_api_secret, workflow_vars, fin_vars>>

\* logout (lines 112-116) and the rerun it asks for: the state is cleared,
\* the file removed, the defaults set again and the restore attempted.
Logout ==
    \E profile \in ProfileOutcomes :
        /\ is_logged_in
        /\ AutoLogin(clear_local_cache(cache_file), profile,
                     Credentials("", ""), Credentials("", ""))
        /\ WorkflowDefaults
        /\ NoBrokerCalls /\ NoQuoteCalls
        /\ UNCHANGED <<request_token, fin_vars>>

-----------------------------------------------------------------------------
(* Batch placement, src/app.py:223-275 and src/kite_utils.py:19-59 *)

Sides == {"BUY", "SELL"}

\* place_buy_order / place_sell_order: one kite.place_order call; `raises`
\* holds the calls (order index, side) the broker rejects.
PlaceCall(i, order, side, price, raises) ==
    [order            |-> i,
     variety          |-> "regular",
     exchange         |-> "NSE",
     tradingsymbol    |-> order.symbol,
     transaction_type |-> side,
     quantity         |-> order.quantity,
     product          |-> "MIS",
     order_type       |-> "LIMIT",
     price            |-> price,
     validity         |-> "DAY",
     raised           |-> <<i, side>> \in raises]

\* Faulty variant: the SELL order is sent at the buy price.
OrderCalls_one_price(order, i, raises) ==
    LET buy  == PlaceCall(i, order, "BUY", order.buy_price, raises)
        sell == PlaceCall(i, order, "SELL", order.buy_price, raises)
        buyPart == IF order.Action \in {"BUY", "BOTH"} THEN <<buy>> ELSE <<>>
        sellPart == IF /\ order.Action \in {"SELL", "BOTH"}
                       /\ ~(buyPart # <<>> /\ buy.raised)
                    THEN <<sell>> ELSE <<>>
    IN  buyPart \o sellPart

\* Faulty variant: the SELL call is made before the BUY call.
OrderCalls_sell_first(order, i, raises) ==
    LET buy  == PlaceCall(i, order, "BUY", order.buy_price, raises)
        sell == PlaceCall(i, order, "SELL", order.sell_price, raises)
        sellPart == IF order.Action \in {"SELL", "BOTH"} THEN <<sell>> ELSE <<>>
        buyPart == IF /\ order.Action \in {"BUY", "BOTH"}
                      /\ ~(sellPart # <<>> /\ sell.raised)
                   THEN <<buy>> ELSE <<>>
    IN  sellPart \o buyPart

\* The try block of one order (lines 251-260): the calls it issues.
OrderCalls(order, i, raises) ==
    LET buy  == PlaceCall(i, order, "BUY", order.buy_price, raises)
        sell == PlaceCall(i, order, "SELL", order.sell_price, raises)
        buyPart == IF order.Action \in {"BUY", "BOTH"} THEN <<buy>> ELSE <<>>
        sellPart == IF /\ order.Action \in {"SELL", "BOTH"}
                       /\ ~(buyPart # <<>> /\ buy.raised)
                    THEN <<sell>> ELSE <<>>
    IN  buyPart \o sellPart

\* Faulty variant: the success is recorded whatever the calls did.
OrderRaised_ignored(order, i, raises) == FALSE

\* Whether the try block of one order ended in the except clause.
OrderRaised(order, i, raises) ==
    \E k \in 1..Len(OrderCalls(order, i, raises)) :
        OrderCalls(order, i, raises)[k].raised

\* Faulty variant: no except clause inside the loop: a raise ends the batch.
NextOrder_abort(orders, i, raised) == IF raised THEN Len(orders) + 1 ELSE i + 1

\* The except clause is inside the for loop (lines 262-264): the loop goes on
\* with the next order whether the try block raised or not.
NextOrder(orders, i, raised) == i + 1

RECURSIVE PlaceFrom(_, _, _)
PlaceFrom(orders, i, raises) ==
    IF i > Len(orders)
    THEN [calls |-> <<>>, successful_orders |-> <<>>, failed_orders |-> <<>>]
    ELSE LET raised == OrderRaised(orders[i], i, raises)
             entry == [symbol |-> orders[i].symbol, action |-> orders[i].Action]
             rest == PlaceFrom(orders, NextOrder(orders, i, raised), raises)
         IN  [calls |-> OrderCalls(orders[i], i, raises) \o rest.calls,
              successful_orders |->
                  (IF raised THEN <<>> ELSE <<entry>>) \o rest.successful_orders,
              failed_orders |->
                  (IF raised THEN <<entry>> ELSE <<>>) \o rest.failed_orders]

place_all_orders(orders_to_place, raises) == PlaceFrom(orders_to_place, 1, raises)

\* The calls a batch may issue: the broker's answer is drawn for each.
CallSlots(orders) ==
    { <<i, side>> \in (1..Len(orders)) \X Sides :
          orders[i].Action \in {side, "BOTH"} }

-----------------------------------------------------------------------------
(* Dashboard: one action per script run, src/app.py:388-536 *)

Pages == {"Scanner", "Order Book"}

\* Faulty variant: reset_selection forgets the finalized rows.
reset_selection_keep ==
    /\ selection_done' = FALSE
    /\ UNCHANGED selected_scanner_data

\* Faulty variant: the batch leaves the review state as it was.
reset_selection_stay == UNCHANGED <<selection_done, selected_scanner_data>>

\* reset_selection, lines 152-155.
reset_selection ==
    /\ selection_done' = FALSE
    /\ selected_scanner_data' = <<>>

\* Faulty variant: the confirm button is drawn in the selection view too.
ReviewViewShown_always == is_logged_in /\ page = "Scanner"

\* Lines 388, 441, 445, 503-504: the review view is the else branch.
ReviewViewShown == is_logged_in /\ page = "Scanner" /\ selection_done

\* Lines 445-446: the selection table and its "Proceed" button.
SelectionViewShown ==
    is_logged_in /\ page = "Scanner" /\ ~selection_done /\ scanner_data # <<>>

\* The sidebar radio (line 400).
Navigate ==
    \E p \in Pages :
        /\ is_logged_in
        /\ page' = p
        /\ NoBrokerCalls /\ NoQuoteCalls /\ NoRestore
        /\ UNCHANGED <<session_vars, scanner_data, selected_scanner_data,
                       selection_done, capital, capital_strategy, fin_vars>>

\* The capital input (line 411).
SetCapital ==
    \E c \in AppCapitals :
        /\ is_logged_in /\ page = "Scanner"
        /\ capital' = c
        /\ NoBrokerCalls /\ NoQuoteCalls /\ NoRestore
        /\ UNCHANGED <<session_vars, page, scanner_data, selected_scanner_data,
                       selection_done, capital_strategy, fin_vars>>

\* The strategy select box (lines 412-416).
SetStrategy ==
    \E s \in Strategies :
        /\ is_logged_in /\ page = "Scanner"
        /\ capital_strategy' = s
        /\ NoBrokerCalls /\ NoQuoteCalls /\ NoRestore
        /\ UNCHANGED <<session_vars, page, scanner_data, selected_scanner_data,
                       selection_done, capital, fin_vars>>

\* Faulty variant: the result is stored without the "if results:" test.
StoreResults_unchecked(results) ==
    scanner_data' = results /\ selection_done' = FALSE

\* Lines 421-426: a result that is not empty is stored, an empty one only
\* gives a warning.
StoreResults(results) ==
    IF results # <<>>
    THEN scanner_data' = results /\ selection_done' = FALSE
    ELSE UNCHANGED <<scanner_data, selection_done>>

\* "Fetch & Select Stocks" (lines 419-426) with fetch_scanner_results
\* returning `results`; it returns [] when there is no row for the date,
\* when the store is missing and when the query raises.
FetchWith(results) ==
    /\ is_logged_in /\ page = "Scanner"
    /\ StoreResults(results)
    /\ NoBrokerCalls /\ NoQuoteCalls /\ NoRestore
    /\ UNCHANGED <<session_vars, page, selected_scanner_data, capital,
                   capital_strategy, fin_vars>>

FetchAndSelect == \E results \in ScannerResults : FetchWith(results)

\* An edit of the Action column: the data editor keeps it, the session state
\* does not change; the edited table is read by the run that proceeds.
EditSelection ==
    /\ SelectionViewShown
    /\ NoBrokerCalls /\ NoQuoteCalls /\ NoRestore
    /\ UNCHANGED <<session_vars, workflow_vars, fin_vars>>

\* Faulty variant: the rows are handed on without the SKIP filter.
SelectedRows_unfiltered(data, acts) ==
    [k \in 1..Len(data) |->
        [symbol |-> data[k].symbol,
         true_range |-> data[k].true_range,
         Action |-> acts[k]]]

\* edited_df[edited_df["Action"] != "SKIP"].to_dict("records")
SelectedRows(data, acts) ==
    LET idx == SelectSeq([i \in 1..Len(data) |-> i], LAMBDA i : acts[i] # "SKIP")
    IN  [k \in 1..Len(idx) |->
            [symbol |-> data[idx[k]].symbol,
             true_range |-> data[idx[k]].true_range,
             Action |-> acts[idx[k]]]]

\* Step 1 of the finalizer (lines 167-171): one get_ohlc_data call per row
\* handed to it, in list order.
QuoteLookups(selected_data) ==
    [i \in 1..Len(selected_data) |-> selected_data[i].symbol]

\* "Proceed to Review" (lines 477-499) pressed with the Action column edited
\* to `acts`, the sidebar multiplier at `multiplier` and the gateway
\* answering the i-th lookup with quotes[i].
ProceedWith(acts, multiplier, quotes) ==
    /\ SelectionViewShown
    /\ LET clean_data == SelectedRows(scanner_data, acts)
       IN  IF clean_data = <<>>
           THEN /\ NoQuoteCalls
                /\ UNCHANGED <<selected_scanner_data, selection_done>>
           ELSE LET finalized_data ==
                        calculate_quantity_and_finalize(
                            clean_data, multiplier, capital,
                            capital_strategy, quotes)
                IN  /\ quote_calls' = QuoteLookups(clean_data)
                    /\ IF finalized_data # <<>>
                       THEN /\ selected_scanner_data' = finalized_data
                            /\ selection_done' = TRUE
                       ELSE UNCHANGED <<selected_scanner_data, selection_done>>
    /\ NoBrokerCalls /\ NoRestore
    /\ UNCHANGED <<session_vars, page, scanner_data, capital,
                   capital_strategy, fin_vars>>

\* The quotes the gateway may answer to the lookups of one proceed.
ProceedQuotes(acts) ==
    [1..Len(SelectedRows(scanner_data, acts)) -> AppOpenPrices]

ProceedToReview ==
    \E acts \in [1..Len(scanner_data) -> Actions], multiplier \in AppMultipliers :
        \E quotes \in ProceedQuotes(acts) :
            ProceedWith(acts, multiplier, quotes)

\* "Back to Stock Selection" (lines 508-510).
BackToSelection ==
    /\ ReviewViewShown
    /\ reset_selection
    /\ NoBrokerCalls /\ NoQuoteCalls /\ NoRestore
    /\ UNCHANGED <<session_vars, page, scanner_data, capital, capital_strategy,
                   fin_vars>>

\* "Confirm and Place All Orders" (lines 535-536) with place_all_orders.
ConfirmAndPlaceAllOrders ==
    \E raises \in SUBSET CallSlots(selected_scanner_data) :
        /\ ReviewViewShown
        /\ LET report == place_all_orders(selected_scanner_data, raises)
           IN  /\ kite_orders' = report.calls
               /\ successful_orders' = report.successful_orders
               /\ failed_orders' = report.failed_orders
        /\ reset_selection
        /\ scanner_data' = <<>>
        /\ NoQuoteCalls /\ NoRestore
        /\ UNCHANGED <<session_vars, page, capital, capital_strategy, fin_vars>>

\* The order book page (lines 279-371): kite.orders() and kite.ltp() are
\* read; "Cancel All" is a mock that issues no call.
ShowOrderBook ==
    /\ is_logged_in /\ page = "Order Book"
    /\ NoBrokerCalls /\ NoQuoteCalls /\ NoRestore
    /\ UNCHANGED <<session_vars, workflow_vars, fin_vars>>

-----------------------------------------------------------------------------
(* The application: Init is the process before its first script run. *)

Init ==
    /\ cache_file \in StartCacheFiles
    /\ is_logged_in = FALSE
    /\ user_api_key = ""
    /\ user_api_secret = ""
    /\ access_token = ""
    /\ request_token = ""
    /\ page = "Scanner"
    /\ scanner_data = <<>>
    /\ selected_scanner_data = <<>>
    /\ selection_done = FALSE
    /\ capital = 100000
    /\ capital_strategy = "One each"
    /\ kite_orders = <<>>
    /\ successful_orders = <<>>
    /\ failed_orders = <<>>
    /\ load_result = "not_called"
    /\ profile_call = "not_called"
    /\ quote_calls = <<>>
    /\ fin_args = [selected_data |-> <<>>, multiplier |-> 15, capital |-> 100000,
                   strategy |-> "One each", quotes |-> <<>>]
    /\ fin_done = FALSE
    /\ fin_result = <<>>
    /\ fin_second = NotCalled
    /\ ku_result = NotCalled

Next ==
    \/ OpenPage
    \/ Connect
    \/ ReturnFromBroker
    \/ CompleteLogin
    \/ Logout
    \/ Navigate
    \/ SetCapital
    \/ SetStrategy
    \/ FetchAndSelect
    \/ EditSelection
    \/ ProceedToReview
    \/ BackToSelection
    \/ ConfirmAndPlaceAllOrders
    \/ ShowOrderBook

vars == <<session_vars, workflow_vars, run_vars, fin_vars>>

Spec == Init /\ [][Next]_vars

-----------------------------------------------------------------------------
(* Finalizer harness: Init draws the arguments, FinalizeCall applies it. *)

FinArgs ==
    { [selected_data |-> rows, multiplier |-> m, capital |-> c,
       strategy |-> s, quotes |-> q] :
        rows \in SeqsUpTo(FinRows, MaxRows), m \in FinMultipliers,
        c \in FinCapitals, s \in Strategies,
        q \in SeqsUpTo(FinOpenPrices, MaxRows) }

\* The application stays as it is before its first run.
AppIdle ==
    /\ cache_file = NoFile
    /\ is_logged_in = FALSE
    /\ user_api_key = ""
    /\ user_api_secret = ""
    /\ access_token = ""
    /\ request_token = ""
    /\ page = "Scanner"
    /\ scanner_data = <<>>
    /\ selected_scanner_data = <<>>
    /\ selection_done = FALSE
    /\ capital = 100000
    /\ capital_strategy = "One each"
    /\ kite_orders = <<>>
    /\ successful_orders = <<>>
    /\ failed_orders = <<>>
    /\ load_result = "not_called"
    /\ profile_call = "not_called"
    /\ quote_calls = <<>>

FinInit ==
    /\ fin_args \in { a \in FinArgs : /\ Len(a.quotes) = Len(a.selected_data)
                                      /\ DistinctSymbols(a.selected_data) }
    /\ fin_done = FALSE
    /\ fin_result = <<>>
    /\ fin_second = NotCalled
    /\ ku_result = NotCalled
    /\ AppIdle

FinalizeCall ==
    /\ ~fin_done
    /\ fin_done' = TRUE
    /\ fin_result' = calculate_quantity_and_finalize(
                         fin_args.selected_data, fin_args.multiplier,
                         fin_args.capital, fin_args.strategy, fin_args.quotes)
    /\ UNCHANGED <<fin_args, fin_second, ku_result, session_vars,
                   workflow_vars, run_vars>>

\* The caller finalizes the same list once more: same arguments, same
\* quotes, the rows as the first call left them.
FinalizeAgain ==
    /\ fin_done /\ ~fin_second.done
    /\ fin_second' = Returned(calculate_quantity_and_finalize(
                                  RowsAfterCall(fin_args.selected_data,
                                                fin_args.quotes, fin_result),
                                  fin_args.multiplier, fin_args.capital,
                                  fin_args.strategy, fin_args.quotes))
    /\ UNCHANGED <<fin_args, fin_done, fin_result, ku_result, session_vars,
                   workflow_vars, run_vars>>

\* The same arguments and quotes given to the finalizer of kite_utils.py.
KiteUtilsFinalizeCall ==
    /\ ~ku_result.done
    /\ ku_result' = kite_utils_calculate_quantity_and_finalize(
                        fin_args.selected_data, fin_args.multiplier,
                        fin_args.capital, fin_args.strategy, fin_args.quotes)
    /\ UNCHANGED <<fin_args, fin_done, fin_result, fin_second, session_vars,
                   workflow_vars, run_vars>>

FinNext ==
    \/ FinalizeCall
    \/ FinalizeAgain
    \/ KiteUtilsFinalizeCall

FinSpec == FinInit /\ [][FinNext]_vars

-----------------------------------------------------------------------------
(* Batch harness: Init is a review state holding any finalized batch of up *)
(* to MaxBatch orders; the confirm action submits it.                      *)

BatchRows ==
    { [symbol |-> s, true_range |-> IF s = "SBIN" THEN 0 ELSE 5000,
       Action |-> a] :
          s \in BatchSymbols, a \in Actions \ {"SKIP"} }

\* The sidebar multiplier at its default, 1.5.
BatchMultiplier == 15

BatchOpenPrice(symbol) ==
    CASE symbol = "INFY" -> 100000
      [] symbol = "TCS" -> 400000
      [] symbol = "SBIN" -> 101456
      [] OTHER -> 5000000

BatchInit ==
    /\ \E rows \in SeqsUpTo(BatchRows, MaxBatch) :
           /\ rows # <<>>
           /\ DistinctSymbols(rows)
           /\ scanner_data = [i \in 1..Len(rows) |->
                                 [symbol |-> rows[i].symbol,
                                  true_range |-> rows[i].true_range]]
           /\ selected_scanner_data =
                  calculate_quantity_and_finalize(
                      rows, BatchMultiplier, 100000, "One each",
                      [i \in 1..Len(rows) |-> BatchOpenPrice(rows[i].symbol)])
    /\ selection_done = TRUE
    /\ cache_file = SessionRecord("keyA", "tokA")
    /\ is_logged_in = TRUE
    /\ user_api_key = "keyA"
    /\ user_api_secret = ""
    /\ access_token = "tokA"
    /\ request_token = ""
    /\ page = "Scanner"
    /\ capital = 100000
    /\ capital_strategy = "One each"
    /\ kite_orders = <<>>
    /\ successful_orders = <<>>
    /\ failed_orders = <<>>
    /\ load_result = "not_called"
    /\ profile_call = "not_called"
    /\ quote_calls = <<>>
    /\ fin_args = [selected_data |-> <<>>, multiplier |-> 15, capital |-> 100000,
                   strategy |-> "One each", quotes |-> <<>>]
    /\ fin_done = FALSE
    /\ fin_result = <<>>
    /\ fin_second = NotCalled
    /\ ku_result = NotCalled

BatchNext == ConfirmAndPlaceAllOrders

BatchSpec == BatchInit /\ [][BatchNext]_vars

-----------------------------------------------------------------------------
(* Dashboard harness: the scanner page of an operator who stays logged in; *)
(* Init is the dashboard as a restored session first shows it.             *)

DashboardInit ==
    /\ cache_file = SessionRecord("keyA", "tokA")
    /\ is_logged_in = TRUE
    /\ user_api_key = "keyA"
    /\ user_api_secret = ""
    /\ access_token = "tokA"
    /\ request_token = ""
    /\ page = "Scanner"
    /\ scanner_data = <<>>
    /\ selected_scanner_data = <<>>
    /\ selection_done = FALSE
    /\ capital = 100000
    /\ capital_strategy = "One each"
    /\ kite_orders = <<>>
    /\ successful_orders = <<>>
    /\ failed_orders = <<>>
    /\ load_result = "not_called"
    /\ profile_call = "not_called"
    /\ quote_calls = <<>>
    /\ fin_args = [selected_data |-> <<>>, multiplier |-> 15, capital |-> 100000,
                   strategy |-> "One each", quotes |-> <<>>]
    /\ fin_done = FALSE
    /\ fin_result = <<>>
    /\ fin_second = NotCalled
    /\ ku_result = NotCalled

DashboardNext ==
    \/ SetCapital
    \/ SetStrategy
    \/ FetchAndSelect
    \/ EditSelection
    \/ ProceedToReview
    \/ BackToSelection
    \/ ConfirmAndPlaceAllOrders

DashboardSpec == DashboardInit /\ [][DashboardNext]_vars

-----------------------------------------------------------------------------
(* Properties of the finalizer (checked under FinSpec) *)

\* The open price a row resolves to: the quote of the last row of the call
\* that carries the same symbol (a quote error is the quote 0).
ResolvedOpen(args, symbol) ==
    LET same == { j \in 1..Len(args.selected_data) :
                      args.selected_data[j].symbol = symbol }
        last == CHOOSE j \in same : \A i \in same : i <= j
    IN  args.quotes[last]

RECURSIVE RowsWithOpenPrice(_, _)
RowsWithOpenPrice(args, i) ==
    IF i > Len(args.selected_data) THEN <<>>
    ELSE (IF ResolvedOpen(args, args.selected_data[i].symbol) # 0
          THEN <<args.selected_data[i]>> ELSE <<>>)
         \o RowsWithOpenPrice(args, i + 1)

InputRow(r) == [symbol |-> r.symbol, true_range |-> r.true_range, Action |-> r.Action]

\* C2: the finalizer returns exactly the input rows whose open price is not
\* 0.0, in input order; a row with open price 0.0 is never returned and never
\* stops the rows after it from being finalized.
C2_ZeroOpenPriceRowsDropped ==
    fin_done =>
        /\ [k \in 1..Len(fin_result) |-> InputRow(fin_result[k])]
               = RowsWithOpenPrice(fin_args, 1)
        /\ \A k \in 1..Len(fin_result) :
               ResolvedOpen(fin_args, fin_result[k].symbol) # 0

\* A zero-price row followed by a priced row that was finalized.
C2_Witness ==
    /\ fin_done
    /\ Len(fin_args.selected_data) = 2
    /\ fin_args.quotes[1] = 0
    /\ fin_args.selected_data[1].symbol # fin_args.selected_data[2].symbol
    /\ Len(fin_result) = 1
    /\ fin_result[1].symbol = fin_args.selected_data[2].symbol

\* C3: with the convention of the specification, buy_price is the open price
\* minus delta and sell_price the open price plus delta, each rounded to one
\* decimal; true_range 5.0, multiplier 1.5, open 100.0 gives buy 92.5 and
\* sell 107.5 with quantity 1 under "One each".
C3_BuyBelowSellAbove ==
    fin_done =>
        \A k \in 1..Len(fin_result) :
            LET r == fin_result[k]
                open == ResolvedOpen(fin_args, r.symbol)
                delta == r.true_range * fin_args.multiplier
            IN  /\ r.buy_price = Round1(open * 10 - delta)
                /\ r.sell_price = Round1(open * 10 + delta)

\* C4: every returned order has an integer quantity >= 1; under "One each"
\* the quantity is exactly 1.
C4_QuantityPositive ==
    fin_done =>
        \A k \in 1..Len(fin_result) :
            /\ fin_result[k].quantity \in Nat
            /\ fin_result[k].quantity >= 1
            /\ fin_args.strategy = "One each" => fin_result[k].quantity = 1

\* Equal distribution where the share of a row does not pay for one unit.
C4_Witness ==
    /\ fin_done
    /\ fin_args.strategy = "Equal distribution"
    /\ \E k \in 1..Len(fin_result) :
           /\ fin_result[k].open_price * Len(fin_result) > fin_args.capital * 1000
           /\ fin_result[k].quantity = 1

\* C5: under "Equal distribution" the total allocated cost exceeds capital
\* by at most the cost of one row at quantity 1 (the dearest row is allowed).
RowCosts(rows) == [k \in 1..Len(rows) |-> rows[k].quantity * rows[k].open_price]

MaxOpenPrice(rows) ==
    IF rows = <<>> THEN 0
    ELSE CHOOSE p \in { rows[k].open_price : k \in 1..Len(rows) } :
             \A k \in 1..Len(rows) : rows[k].open_price <= p

C5_AllocationWithinCapital ==
    (fin_done /\ fin_args.strategy = "Equal distribution") =>
        SumSeq(RowCosts(fin_result))
            <= fin_args.capital * 1000 + MaxOpenPrice(fin_result)

\* C6: under "Equal distribution" the quantity of a row is
\* max(1, floor((capital / N) / open_price)), N being the number of rows
\* finalized; a row whose open price shows as 0.00 takes the fallback 1.
C6_EqualDistributionQuantity ==
    (fin_done /\ fin_args.strategy = "Equal distribution") =>
        \A k \in 1..Len(fin_result) :
            LET q == fin_result[k].quantity
                cost == Len(fin_result) * fin_result[k].open_price
                budget == fin_args.capital * 1000
            IN  IF cost <= 0 \/ cost > budget THEN q = 1
                ELSE q * cost <= budget /\ budget < (q + 1) * cost

\* capital 100000 over opens 100 and 400 gives 500 and 125.
C6_Witness ==
    /\ fin_done
    /\ fin_args.strategy = "Equal distribution"
    /\ fin_args.capital = 100000
    /\ Len(fin_result) = 2
    /\ fin_result[1].open_price = 100000 /\ fin_result[1].quantity = 500
    /\ fin_result[2].open_price = 400000 /\ fin_result[2].quantity = 125

-----------------------------------------------------------------------------
(* Properties of the application (Spec) and of a batch (BatchSpec) *)

\* C1: a run issues kite.place_order calls only when it handles "Confirm and
\* Place All Orders", taken logged in and in the review state; no other
\* action (fetch, edit, proceed, back, navigation, restore, login) does.
C1_OrdersOnlyOnConfirm ==
    [][kite_orders' # <<>> =>
           /\ is_logged_in
           /\ selection_done
           /\ ConfirmAndPlaceAllOrders]_vars

\* A run that placed orders.
C1_Witness ==
    /\ is_logged_in
    /\ kite_orders # <<>>
    /\ \E k \in 1..Len(kite_orders) : ~kite_orders[k].raised

\* C7: a placement that raises never aborts the batch: every order of the
\* batch is attempted, the failures reported are the orders whose placement
\* raised and every other order is reported as a success.
RaisedOrders(calls) == { calls[k].order : k \in { j \in 1..Len(calls) : calls[j].raised } }

C7_BatchNeverAborts ==
    [][kite_orders' # <<>> =>
           LET batch == selected_scanner_data
               raised == RaisedOrders(kite_orders')
           IN  /\ \A i \in 1..Len(batch) :
                      \E k \in 1..Len(kite_orders') :
                          /\ kite_orders'[k].order = i
                          /\ kite_orders'[k].tradingsymbol = batch[i].symbol
               /\ Len(failed_orders') = Cardinality(raised)
               /\ Len(successful_orders') = Len(batch) - Cardinality(raised)
               /\ { failed_orders'[k].symbol : k \in 1..Len(failed_orders') }
                      = { batch[i].symbol : i \in raised }]_vars

\* Three symbols, the second raised: one failure, two successes.
C7_Witness ==
    /\ RaisedOrders(kite_orders) = {2}
    /\ \E k \in 1..Len(kite_orders) : kite_orders[k].order = 3
    /\ Len(failed_orders) = 1
    /\ Len(successful_orders) = 2

\* C8: when load_session_from_disk returns False, whatever the reason, the
\* cache file does not exist afterwards.
C8_FailedRestoreDeletesRecord ==
    load_result = "False" => ~cache_file.exists

\* C9: the restore returns False, leaves the operator not logged in and sets
\* no credentials when the file is absent, is not valid JSON, lacks a
\* required field or its token fails the profile call; it logs the operator
\* in only when the record is complete and the profile call succeeds.
C9_RestoreOnlyFromValidRecord ==
    [][load_result' # "not_called" =>
           /\ load_result' = "True" =>
                  /\ profile_call' = "ok"
                  /\ is_logged_in'
                  /\ access_token' # "" /\ user_api_key' # ""
           /\ load_result' = "False" =>
                  /\ ~is_logged_in'
                  /\ access_token' = ""
                  /\ user_api_key' \in FormKeys
           /\ profile_call' \in {"token_rejected", "network_error"} =>
                  load_result' = "False"
           /\ (\/ ~cache_file.exists
               \/ ~cache_file.valid_json
               \/ cache_file.api_key = ""
               \/ cache_file.access_token = "") => load_result' = "False"]_vars

\* The token of a complete record was rejected by the profile call.
C9_Witness ==
    /\ load_result = "False"
    /\ profile_call = "token_rejected"
    /\ ~is_logged_in
    /\ access_token = ""

\* C10: after a batch submission, whatever succeeded or failed, the workflow
\* is in an empty selection state (selection_done false, no finalized rows,
\* no scanner data); a submission needs the review state, which is entered
\* only by finalizing fetched scanner data.
C10_BatchResetsWorkflow ==
    /\ [](kite_orders # <<>> =>
              /\ ~selection_done
              /\ selected_scanner_data = <<>>
              /\ scanner_data = <<>>)
    /\ [][kite_orders' # <<>> => selection_done]_vars
    /\ [][(~selection_done /\ selection_done') =>
              /\ scanner_data # <<>>
              /\ selected_scanner_data' # <<>>]_vars

\* A batch with one success and one failure has completed.
C10_Witness ==
    /\ successful_orders # <<>>
    /\ failed_orders # <<>>
    /\ ~selection_done
    /\ scanner_data = <<>>

-----------------------------------------------------------------------------
(* Properties settled with the proceed step, the batch and the session *)

RECURSIVE NonSkipRows(_, _, _)
NonSkipRows(data, acts, i) ==
    IF i > Len(data) THEN <<>>
    ELSE (IF acts[i] = "SKIP" THEN <<>>
          ELSE <<[symbol |-> data[i].symbol, true_range |-> data[i].true_range,
                  Action |-> acts[i]]>>)
         \o NonSkipRows(data, acts, i + 1)

\* C11: on "proceed" in the selection state, if every row is SKIP the
\* workflow stays in selection and no quote is looked up; if the finalizer
\* returns no order it stays in selection; otherwise it moves to review
\* carrying exactly the finalizer's output.  Hence in the review state the
\* finalized set is not empty and holds no SKIP row.
C11_ProceedOutcome ==
    /\ [][\A acts \in [1..Len(scanner_data) -> Actions],
             multiplier \in AppMultipliers :
             \A quotes \in ProceedQuotes(acts) :
                 ProceedWith(acts, multiplier, quotes) =>
                     LET rows == NonSkipRows(scanner_data, acts, 1)
                     IN  IF rows = <<>>
                         THEN /\ quote_calls' = <<>>
                              /\ ~selection_done'
                              /\ selected_scanner_data' = selected_scanner_data
                         ELSE IF Len(quotes) # Len(rows) THEN FALSE
                         ELSE LET out == calculate_quantity_and_finalize(
                                             rows, multiplier, capital,
                                             capital_strategy, quotes)
                              IN  IF out = <<>>
                                  THEN /\ ~selection_done'
                                       /\ selected_scanner_data'
                                              = selected_scanner_data
                                  ELSE /\ selection_done'
                                       /\ selected_scanner_data' = out]_vars
    /\ [][quote_calls' # <<>> => SelectionViewShown]_vars
    /\ [](selection_done =>
              /\ selected_scanner_data # <<>>
              /\ \A k \in 1..Len(selected_scanner_data) :
                     selected_scanner_data[k].Action # "SKIP")

\* Review entered after two lookups of which one gave no open price.
C11_Witness ==
    /\ selection_done
    /\ Len(quote_calls) = 2
    /\ Len(selected_scanner_data) = 1

\* A day-validity intraday limit order of one side of a finalized order.
LimitOrder(i, row, side, price) ==
    [order |-> i, variety |-> "regular", exchange |-> "NSE",
     tradingsymbol |-> row.symbol, transaction_type |-> side,
     quantity |-> row.quantity, product |-> "MIS", order_type |-> "LIMIT",
     price |-> price, validity |-> "DAY", raised |-> FALSE]

RECURSIVE ExpectedCalls(_, _)
ExpectedCalls(batch, i) ==
    IF i > Len(batch) THEN <<>>
    ELSE (IF batch[i].Action \in {"BUY", "BOTH"}
          THEN <<LimitOrder(i, batch[i], "BUY", batch[i].buy_price)>> ELSE <<>>)
         \o (IF batch[i].Action \in {"SELL", "BOTH"}
             THEN <<LimitOrder(i, batch[i], "SELL", batch[i].sell_price)>> ELSE <<>>)
         \o ExpectedCalls(batch, i + 1)

\* C12: in a batch where no placement raises, the calls sent to the broker
\* are, for each finalized order as shown in review: one BUY limit order at
\* its buy_price for BUY, one SELL limit order at its sell_price for SELL,
\* both for BOTH, with its quantity and symbol; no call is made for a row
\* whose action is SKIP.
C12_CallsMatchReview ==
    [][(kite_orders' # <<>> /\ RaisedOrders(kite_orders') = {}) =>
           /\ kite_orders' = ExpectedCalls(selected_scanner_data, 1)
           /\ \A k \in 1..Len(kite_orders') :
                  LET row == selected_scanner_data[kite_orders'[k].order]
                  IN  /\ row.Action # "SKIP"
                      /\ row.symbol = kite_orders'[k].tradingsymbol]_vars

\* A batch of a BOTH order and a one-sided order, nothing raised.
C12_Witness ==
    /\ Len(kite_orders) = 3
    /\ RaisedOrders(kite_orders) = {}
    /\ Len(successful_orders) = 2

\* C13: the calls of a batch are issued one after the other in the order of
\* the finalized list, the BUY call of a BOTH order before its SELL call; no
\* call of a later order precedes a call of an earlier one.
C13_CallsInListOrder ==
    [][\A k, l \in 1..Len(kite_orders') :
           k < l =>
               /\ kite_orders'[k].order <= kite_orders'[l].order
               /\ kite_orders'[k].order = kite_orders'[l].order =>
                      /\ kite_orders'[k].transaction_type = "BUY"
                      /\ kite_orders'[l].transaction_type = "SELL"
               /\ kite_orders'[k].tradingsymbol
                      = selected_scanner_data[kite_orders'[k].order].symbol
               /\ kite_orders'[l].tradingsymbol
                      = selected_scanner_data[kite_orders'[l].order].symbol]_vars

\* Three orders, the second a BOTH order: four calls or more.
C13_Witness ==
    /\ Len(kite_orders) >= 4
    /\ \E k \in 1..(Len(kite_orders) - 1) :
           /\ kite_orders[k].order = 2 /\ kite_orders[k + 1].order = 2
    /\ kite_orders[Len(kite_orders)].order = 3

\* C14: a finalized order is consumed at most once and never retried by
\* the program: a run that places orders takes them from the pending
\* finalization, issues at most one call per required side of each order and
\* leaves nothing finalized and nothing fetched; orders can be pending again
\* only after a run that invoked the finalizer on fetched rows, and rows are
\* there again only after a fetch, neither of which places an order.
C14_NoAutomaticRetry ==
    /\ [][kite_orders' # <<>> =>
              /\ selection_done
              /\ \A k \in 1..Len(kite_orders') :
                     /\ kite_orders'[k].order \in 1..Len(selected_scanner_data)
                     /\ selected_scanner_data[kite_orders'[k].order].Action
                            \in {kite_orders'[k].transaction_type, "BOTH"}
                     /\ \A l \in 1..Len(kite_orders') :
                            (/\ kite_orders'[l].order = kite_orders'[k].order
                             /\ kite_orders'[l].transaction_type
                                    = kite_orders'[k].transaction_type) => l = k
              /\ ~selection_done'
              /\ selected_scanner_data' = <<>>
              /\ scanner_data' = <<>>]_vars
    /\ [][(~selection_done /\ selection_done') =>
              /\ scanner_data # <<>>
              /\ quote_calls' # <<>>
              /\ kite_orders' = <<>>]_vars
    /\ [][(scanner_data = <<>> /\ scanner_data' # <<>>) =>
              /\ kite_orders' = <<>>
              /\ ~selection_done']_vars

\* A batch whose every order failed has been consumed all the same.
C14_Witness ==
    /\ failed_orders # <<>>
    /\ successful_orders = <<>>
    /\ kite_orders # <<>>
    /\ ~selection_done
    /\ selected_scanner_data = <<>>

\* C15: a token exchange that fails leaves the operator not logged in, sets
\* no access token and does not touch the persisted record; one that
\* succeeds logs the operator in and overwrites the persisted record with
\* the new api key and access token.
C15_ExchangeOutcome ==
    [][(~is_logged_in /\ load_result' = "not_called") =>
           /\ request_token' # "" =>
                  /\ ~is_logged_in'
                  /\ access_token' = ""
                  /\ cache_file' = cache_file
           /\ is_logged_in' =>
                  /\ access_token' = NewToken
                  /\ user_api_key' # ""
                  /\ cache_file' = SessionRecord(user_api_key', access_token')]_vars

\* C16: logout deletes the persisted record and drops the in-memory session
\* and workflow state; from then on the operator stays logged out, no render
\* restores a session, and the dashboard is reached again only through a
\* token exchange that succeeds.
C16_LogoutEndsSession ==
    /\ [][Logout =>
              /\ ~cache_file'.exists
              /\ ~is_logged_in'
              /\ access_token' = "" /\ user_api_key' = "" /\ user_api_secret' = ""
              /\ scanner_data' = <<>>
              /\ selected_scanner_data' = <<>>
              /\ ~selection_done'
              /\ load_result' = "False"
              /\ kite_orders' = <<>>]_vars
    /\ [][(~cache_file.exists /\ ~is_logged_in) =>
              /\ load_result' # "True"
              /\ (is_logged_in' \/ cache_file'.exists) =>
                     /\ is_logged_in'
                     /\ request_token # "" \/ user_api_secret # ""
                     /\ access_token' = NewToken]_vars
    /\ [][load_result' = "True" => cache_file.exists]_vars

\* Logged out, nothing on disk, nothing in memory, the restore found no file.
C16_Witness ==
    /\ ~is_logged_in
    /\ ~cache_file.exists
    /\ load_result = "False"
    /\ profile_call = "not_called"
    /\ access_token = "" /\ user_api_key = ""
    /\ scanner_data = <<>>

\* C17: with the market snapshot unchanged, finalizing a second time the
\* same rows (as the first call left them), with the same multiplier,
\* capital and strategy, returns the same orders: same symbols, same order,
\* same open_price, buy_price, sell_price and quantity.
C17_FinalizeTwiceSame ==
    fin_second.done =>
        /\ Len(fin_second.rows) = Len(fin_result)
        /\ \A k \in 1..Len(fin_result) :
               /\ fin_second.rows[k].symbol = fin_result[k].symbol
               /\ fin_second.rows[k].open_price = fin_result[k].open_price
               /\ fin_second.rows[k].buy_price = fin_result[k].buy_price
               /\ fin_second.rows[k].sell_price = fin_result[k].sell_price
               /\ fin_second.rows[k].quantity = fin_result[k].quantity

\* A second call on two rows of which the first call skipped one and wrote
\* its fields into the other, the delta not being zero.
C17_Witness ==
    /\ fin_second.done
    /\ Len(fin_args.selected_data) = 2
    /\ Len(fin_second.rows) = 1
    /\ fin_second.rows[1].buy_price # fin_second.rows[1].sell_price
    /\ fin_args.strategy = "Equal distribution"

\* p (in mills) is a multiple of 0.1 and no other multiple of 0.1 is nearer
\* to raw (in 1/10000 rupee).
NearestTenth(p, raw) ==
    /\ p % 100 = 0
    /\ 10 * p - raw <= 500
    /\ raw - 10 * p <= 500

\* C18: buy_price and sell_price of every finalized order are multiples of
\* 0.1, the nearest ones to the open price plus delta and to the open price
\* minus delta (101.456 gives 101.5), and the price of each call sent to the
\* broker is the rounded price shown in review.
C18_PricesRoundedToTenth ==
    /\ [](selection_done =>
              \A i \in 1..Len(selected_scanner_data) :
                  LET row == selected_scanner_data[i]
                      open == BatchOpenPrice(row.symbol)
                      delta == row.true_range * BatchMultiplier
                      raws == {open * 10 + delta, open * 10 - delta}
                  IN  /\ \E raw \in raws : NearestTenth(row.buy_price, raw)
                      /\ \E raw \in raws : NearestTenth(row.sell_price, raw)
                      /\ delta # 0 =>
                             \E raw \in raws :
                                 /\ NearestTenth(row.buy_price, raw)
                                 /\ \E other \in raws \ {raw} :
                                        NearestTenth(row.sell_price, other))
    /\ [][\A k \in 1..Len(kite_orders') :
              LET call == kite_orders'[k]
                  row == selected_scanner_data[call.order]
              IN  /\ call.price % 100 = 0
                  /\ call.price = IF call.transaction_type = "BUY"
                                  THEN row.buy_price ELSE row.sell_price]_vars

\* An order with open price 101.456 and delta 0 was sent at 101.5.
C18_Witness ==
    \E k \in 1..Len(kite_orders) :
        /\ kite_orders[k].tradingsymbol = "SBIN"
        /\ kite_orders[k].price = 101500

\* C19: every side required by the action of every finalized order is
\* attempted whatever raises; the SELL placement of a BOTH order is
\* attempted even when its BUY placement raised.
C19_AllSidesAttempted ==
    [][kite_orders' # <<>> =>
           \A i \in 1..Len(selected_scanner_data), side \in Sides :
               selected_scanner_data[i].Action \in {side, "BOTH"} =>
                   \E k \in 1..Len(kite_orders') :
                       /\ kite_orders'[k].order = i
                       /\ kite_orders'[k].transaction_type = side]_vars

\* C20: for the same rows, multiplier, capital, strategy and open prices the
\* finalizer of app.py and the finalizer of kite_utils.py give every row the
\* same buy_price, sell_price and quantity (stated for the calls that the
\* finalizer of kite_utils.py completes).
C20_SameSignConvention ==
    (fin_done /\ ku_result.done /\ ~ku_result.raised) =>
        /\ Len(ku_result.rows) = Len(fin_result)
        /\ \A k \in 1..Len(fin_result) :
               /\ ku_result.rows[k].symbol = fin_result[k].symbol
               /\ ku_result.rows[k].buy_price = fin_result[k].buy_price
               /\ ku_result.rows[k].sell_price = fin_result[k].sell_price
               /\ ku_result.rows[k].quantity = fin_result[k].quantity

\* C21: whenever the workflow is in the selection state no finalized data
\* is held: leaving review, by "Back to Stock Selection" or by a new
\* non-empty fetch, discards the finalized set.
C21_SelectionHoldsNoFinalizedData ==
    ~selection_done => selected_scanner_data = <<>>

\* C22: a fetch that returns no rows leaves scanner_data, selection_done
\* and selected_scanner_data as they were and places no order; a fetch that
\* returns rows stores them and puts the workflow in the selection state,
\* and nothing else gives scanner_data a new non-empty value.
C22_EmptyFetchChangesNothing ==
    /\ [][\A results \in ScannerResults :
              FetchWith(results) =>
                  /\ kite_orders' = <<>>
                  /\ selected_scanner_data' = selected_scanner_data
                  /\ IF results = <<>>
                     THEN /\ scanner_data' = scanner_data
                          /\ selection_done' = selection_done
                     ELSE /\ scanner_data' = results
                          /\ ~selection_done']_vars
    /\ [][(scanner_data' # scanner_data /\ scanner_data' # <<>>) =>
              /\ is_logged_in /\ page = "Scanner"
              /\ scanner_data' \in ScannerResults
              /\ ~selection_done'
              /\ kite_orders' = <<>>
              /\ quote_calls' = <<>>]_vars

\* A fetch made in the review state returned rows: the workflow is in the
\* selection state with the finalized rows of that review still held.
C22_Witness ==
    /\ scanner_data # <<>>
    /\ ~selection_done
    /\ selected_scanner_data # <<>>
    /\ kite_orders = <<>>

\* The entries of a report list that stand for order i of the batch.
EntriesOf(report, batch, i) ==
    { k \in 1..Len(report) : /\ report[k].symbol = batch[i].symbol
                             /\ report[k].action = batch[i].Action }

\* C23: in a batch every symbol is recorded exactly once, as a success or
\* as a failure, so successes + failures = batch size; a symbol is recorded
\* as a success only if every placement call its action requires was made
\* and returned without raising.
C23_EachOrderRecordedOnce ==
    [][kite_orders' # <<>> =>
           LET batch == selected_scanner_data
           IN  /\ Len(successful_orders') + Len(failed_orders') = Len(batch)
               /\ \A i \in 1..Len(batch) :
                      /\ Cardinality(EntriesOf(successful_orders', batch, i))
                             + Cardinality(EntriesOf(failed_orders', batch, i)) = 1
                      /\ EntriesOf(successful_orders', batch, i) # {} =>
                             \A side \in Sides :
                                 batch[i].Action \in {side, "BOTH"} =>
                                     \E k \in 1..Len(kite_orders') :
                                         /\ kite_orders'[k].order = i
                                         /\ kite_orders'[k].transaction_type = side
                                         /\ ~kite_orders'[k].raised]_vars

\* A BOTH order whose BUY was placed and whose SELL raised is a failure,
\* next to an order that succeeded.
C23_Witness ==
    /\ successful_orders # <<>>
    /\ \E k, l \in 1..Len(kite_orders) :
           /\ kite_orders[k].order = kite_orders[l].order
           /\ kite_orders[k].transaction_type = "BUY" /\ ~kite_orders[k].raised
           /\ kite_orders[l].transaction_type = "SELL" /\ kite_orders[l].raised
           /\ \E f \in 1..Len(failed_orders) :
                  /\ failed_orders[f].symbol = kite_orders[k].tradingsymbol
                  /\ failed_orders[f].action = "BOTH"

=============================================================================
